---- MODULE Spec2Model ----
(***************************************************************************)
(* A model of src/utils/dataset.py: the TrainTestDataset class, collate    *)
(* and get_dataloader.                                                     *)
(*                                                                         *)
(* Text is modelled glyph by glyph: a line of a file is a sequence of      *)
(* glyphs, a glyph being a whitespace character or a printable symbol      *)
(* (the word UNKNOWN is one symbol).  The newline that ends a line is      *)
(* whitespace at its end and is left implicit.  Python's 0-based           *)
(* positions are kept: the element at 0-based position i of a Python       *)
(* sequence is element i + 1 of its TLA+ sequence.                         *)
(*                                                                         *)
(* Every call is one atomic action that records its outcome in ret: how    *)
(* the call ended (returned or raised), the exception and the line that    *)
(* raised it, the value returned and the locals assigned up to that point. *)
(***************************************************************************)
EXTENDS Integers, Sequences, FiniteSets, TLC

VARIABLES
    vocab_file,     \* the lines of the file at vocab_path
    formulas_file,  \* the lines of the file at formulas_path
    data_file,      \* the lines of the file at data_path, as <<image, idx>> fields
    image_files,    \* the image directory: file name -> <<width, height>>
    constructed,    \* whether TrainTestDataset.__init__ has run
    formulas,       \* self.formulas
    data,           \* self.data
    vocab,          \* self.vocab
    image_dir,      \* self.image_dir
    transform,      \* self.transform
    ret             \* the outcome of the last call

vars == <<vocab_file, formulas_file, data_file, image_files, constructed,
          formulas, data, vocab, image_dir, transform, ret>>

fields == <<formulas, data, vocab, image_dir, transform>>

inputs == <<vocab_file, formulas_file, data_file, image_files>>

\* ------------------------------------------------------------------ bounds

MaxVocabLines == 2

MaxLineLen == 2

NumWorkers == 2

MaxBatch == 2

MaxSeqLen == 2

MaxSide == 4

ZMax == 8

\* z = k / ZDen for the draws k of np.random.randn(): a dyadic grid, so that
\* ratio = z / 2 + 1 and old / ratio are exact in floating point
ZDen == 2

\* --------------------------------------------------------- program constants

ResizeSide == 1024

BatchSize == 8

\* -------------------------------------------------------------------- text

Whitespace == {" "}

Symbols == {"a", "UNKNOWN"}

Glyphs == Symbols \cup Whitespace

UNKNOWN == <<"UNKNOWN">>

None == "None"

RECURSIVE lstrip(_)
lstrip(s) ==
    IF s = <<>> THEN s
    ELSE IF Head(s) \in Whitespace THEN lstrip(Tail(s)) ELSE s

RECURSIVE rstrip(_)
rstrip(s) ==
    IF s = <<>> THEN s
    ELSE IF s[Len(s)] \in Whitespace THEN rstrip(SubSeq(s, 1, Len(s) - 1)) ELSE s

\* str.strip(): leading and trailing whitespace removed
strip(s) == rstrip(lstrip(s))

RECURSIVE SplitFrom(_, _, _)
SplitFrom(s, word, acc) ==
    LET closed == IF word = <<>> THEN acc ELSE Append(acc, word)
    IN  IF s = <<>> THEN closed
        ELSE IF Head(s) \in Whitespace THEN SplitFrom(Tail(s), <<>>, closed)
        ELSE SplitFrom(Tail(s), Append(word, Head(s)), acc)

\* str.split(): the maximal runs of non-whitespace glyphs, in order
split(s) == SplitFrom(s, <<>>, <<>>)

\* ------------------------------------------------------------ construction

EmptyDict == [k \in {} |-> 0]

\* {s.strip(): i for i, s in enumerate(strs)} after the first n lines: the
\* items are inserted in order, a later one replacing an earlier one that has
\* the same key
\* (LoadVocabFrom1 and LoadVocabOneBased number the lines from 1, as
\* enumerate(strs, 1) would)
RECURSIVE LoadVocabFrom1(_, _)
LoadVocabFrom1(strs, n) ==
    IF n = 0 THEN EmptyDict
    ELSE (strip(strs[n]) :> n) @@ LoadVocabFrom1(strs, n - 1)

RECURSIVE LoadVocabUpTo(_, _)
LoadVocabUpTo(strs, n) ==
    IF n = 0 THEN EmptyDict
    ELSE (strip(strs[n]) :> (n - 1)) @@ LoadVocabUpTo(strs, n - 1)

LoadVocabOneBased(strs) == LoadVocabFrom1(strs, Len(strs))

LoadVocab(strs) == LoadVocabUpTo(strs, Len(strs))

\* pd.DataFrame({'tokens': [np.array(s.split()) for s in strs]}): one row per
\* line, each row holding one cell (the column 'tokens'), the array of tokens
LoadFormulas(strs) == [p \in 1..Len(strs) |-> <<split(strs[p])>>]

\* pd.DataFrame(..., columns=['image', 'idx']) with idx cast to int: one row
\* <<image, idx>> per line
LoadData(strs) == [p \in 1..Len(strs) |-> <<strs[p][1], strs[p][2]>>]

\* ---------------------------------------------------------------- outcomes

NoLocals == [item |-> None, formula |-> None, seq_len |-> None,
             image |-> None, sequence |-> None]

Returned(op, worker, arg, value, locals) ==
    [op |-> op, worker |-> worker, arg |-> arg, status |-> "returned",
     exc |-> None, line |-> 0, value |-> value, locals |-> locals]

Raised(op, worker, arg, exc, line, locals) ==
    [op |-> op, worker |-> worker, arg |-> arg, status |-> "raised",
     exc |-> exc, line |-> line, value |-> None, locals |-> locals]

NoCall ==
    [op |-> None, worker |-> 0, arg |-> None, status |-> None,
     exc |-> None, line |-> 0, value |-> None, locals |-> NoLocals]

\* ------------------------------------------------------------------ pandas

\* DataFrame.iloc[i] with an integer i: positions -n .. n-1 are accepted, a
\* negative one counting from the end; any other raises IndexError
ilocInRange(df, i) == -Len(df) <= i /\ i < Len(df)

iloc(df, i) == IF i < 0 THEN df[Len(df) + i + 1] ELSE df[i + 1]

\* ------------------------------------------------------------------- torch

\* a two-dimensional tensor: its shape and its rows
Matrix(n, m, rows) == [kind |-> "tensor", shape |-> <<n, m>>, rows |-> rows]

\* torch.zeros(n, m)
zeros(n, m) == Matrix(n, m, [r \in 1..n |-> [c \in 1..m |-> 0]])

\* torch.cat((t, u)) along the rows, t and u having the same width
cat(t, u) == Matrix(t.shape[1] + u.shape[1], t.shape[2], t.rows \o u.rows)

RECURSIVE Product(_)
Product(shape) == IF shape = <<>> THEN 1 ELSE Head(shape) * Product(Tail(shape))

\* torch.tensor(seq) for a sequence of tensors: each tensor is read as one
\* Python scalar, which only a tensor of exactly one element allows
tensorAccepts(shapes) == \A p \in 1..Len(shapes) : Product(shapes[p]) = 1

\* --------------------------------------------------------------- the image

PILImage(size) == [kind |-> "PIL", mode |-> "L", size |-> size]

Tensor(shape) == [kind |-> "tensor", shape |-> shape]

\* Compose([Resize((1024, 1024)), ToTensor(), Normalize((0.5), (1))]) applied
\* to a grayscale image: one channel of 1024 x 1024 values
Pipeline(image) == Tensor(<<1, ResizeSide, ResizeSide>>)

\* int(a / b) for a >= 0 and b # 0: the quotient truncated towards zero
TruncDiv(a, b) == IF b > 0 THEN a \div b ELSE -(a \div (-b))

\* ratio = (np.random.randn() / 2) + 1 for the draw z = k / ZDen, as the
\* fraction RatioNum(k) / RatioDen
RatioNum(k) == k + 2 * ZDen

RatioDen == 2 * ZDen

\* _downsample_image: [raised, exc, line, image]
_downsample_image(image, k) ==
    IF RatioNum(k) = 0
    THEN [raised |-> TRUE, exc |-> "ZeroDivisionError", line |-> 84, image |-> None]
    ELSE LET new_size == <<TruncDiv(image.size[1] * RatioDen, RatioNum(k)),
                           TruncDiv(image.size[2] * RatioDen, RatioNum(k))>>
         IN  IF new_size[1] < 1 \/ new_size[2] < 1
             THEN [raised |-> TRUE, exc |-> "ValueError", line |-> 85, image |-> None]
             ELSE [raised |-> FALSE, exc |-> None, line |-> 0,
                   image |-> PILImage(new_size)]

\* ---------------------------------------------------------- _encode_tokens

\* encode(token): self.vocab(token, self.vocab['UNKNOWN']).  The arguments
\* are evaluated first (KeyError when the vocabulary has no UNKNOWN), then
\* the dict self.vocab is called, which raises TypeError: no index is ever
\* returned
encode(voc, token) ==
    IF UNKNOWN \notin DOMAIN voc
    THEN [raised |-> TRUE, exc |-> "KeyError", index |-> None]
    ELSE [raised |-> TRUE, exc |-> "TypeError", index |-> None]

\* _encode_tokens(formula) for any iterable formula with a length:
\* [raised, exc, line, sequence], sequence being the local as last assigned
_encode_tokens(voc, formula) ==
    LET V == Cardinality(DOMAIN voc)
        sequence == zeros(Len(formula), V)
        tokens_idx == [j \in 1..Len(formula) |-> encode(voc, formula[j])]
        failed == {j \in 1..Len(formula) : tokens_idx[j].raised}
    IN  IF failed # {}
        THEN LET j == CHOOSE x \in failed : \A y \in failed : x <= y
             IN  [raised |-> TRUE, exc |-> tokens_idx[j].exc, line |-> 70,
                  sequence |-> sequence]
        ELSE IF \E j \in 1..Len(formula) :
                    ~(-V <= tokens_idx[j].index /\ tokens_idx[j].index < V)
        THEN [raised |-> TRUE, exc |-> "IndexError", line |-> 73,
              sequence |-> sequence]
        ELSE [raised |-> FALSE, exc |-> None, line |-> 0,
              sequence |-> Matrix(Len(formula), V,
                              [r \in 1..Len(formula) |->
                                 [c \in 1..V |->
                                    IF c - 1 = tokens_idx[r].index % V
                                    THEN 1 ELSE 0]])]

\* --------------------------------------------------------------- the calls

\* TrainTestDataset.__len__
LenOutcome(w) == Returned("__len__", w, None, Len(data), NoLocals)

\* TrainTestDataset.__getitem__(index), the draw of np.random.randn() being
\* k / ZDen
GetItemOutcome(w, index, k) ==
    LET op == "__getitem__"
        arg == [index |-> index, k |-> k]
    IN
    IF ~ilocInRange(data, index)
    THEN Raised(op, w, arg, "IndexError", 49, NoLocals)
    ELSE
    LET item == iloc(data, index)
        l1 == [NoLocals EXCEPT !.item = item]
    IN
    IF ~ilocInRange(formulas, item[2])
    THEN Raised(op, w, arg, "IndexError", 50, l1)
    ELSE
    LET formula == iloc(formulas, item[2])
        l2 == [l1 EXCEPT !.formula = formula]
    IN
    IF item[1] \notin DOMAIN image_files
    THEN Raised(op, w, arg, "FileNotFoundError", 52, l2)
    ELSE
    LET opened == PILImage(image_files[item[1]])
        seq_len == Len(formula)
        l3 == [l2 EXCEPT !.image = opened, !.seq_len = seq_len]
        down == _downsample_image(opened, k)
    IN
    IF down.raised
    THEN Raised(op, w, arg, down.exc, down.line, l3)
    ELSE
    LET image == IF transform # None THEN Pipeline(down.image) ELSE down.image
        l4 == [l3 EXCEPT !.image = image]
        enc == _encode_tokens(vocab, formula)
        l5 == [l4 EXCEPT !.sequence = enc.sequence]
    IN
    IF enc.raised
    THEN Raised(op, w, arg, enc.exc, enc.line, l5)
    ELSE Returned(op, w, arg, <<image, enc.sequence, seq_len>>, l5)

\* a direct call of TrainTestDataset._encode_tokens(formula)
EncodeTokensOutcome(w, formula) ==
    LET enc == _encode_tokens(vocab, formula)
        locals == [NoLocals EXCEPT !.sequence = enc.sequence]
    IN  IF enc.raised
        THEN Raised("_encode_tokens", w, formula, enc.exc, enc.line, locals)
        ELSE Returned("_encode_tokens", w, formula, enc.sequence, locals)

\* a direct call of TrainTestDataset._downsample_image(image)
DownsampleOutcome(w, image, k) ==
    LET arg == [image |-> image, k |-> k]
        down == _downsample_image(image, k)
    IN  IF down.raised
        THEN Raised("_downsample_image", w, arg, down.exc, down.line, NoLocals)
        ELSE Returned("_downsample_image", w, arg, down.image, NoLocals)

Max(seq) == CHOOSE m \in {seq[p] : p \in 1..Len(seq)} :
                \A p \in 1..Len(seq) : seq[p] <= m

\* collate(batch, device), batch a sequence of samples <<image, tokens, seq_len>>
CollateOutcome(w, batch, device) ==
    LET op == "collate"
        arg == [batch |-> batch, device |-> device]
        none == [max_len |-> None, tokens |-> None]
    IN
    IF batch = <<>>
    THEN Raised(op, w, arg, "ValueError", 91, none)
    ELSE
    LET images == [p \in 1..Len(batch) |-> batch[p][1]]
        tokens == [p \in 1..Len(batch) |-> batch[p][2]]
        seq_len == [p \in 1..Len(batch) |-> batch[p][3]]
        max_len == Max(seq_len)
    IN
    IF \E p \in 1..Len(batch) : max_len - tokens[p].shape[1] < 0
    THEN Raised(op, w, arg, "RuntimeError", 93, [none EXCEPT !.max_len = max_len])
    ELSE
    LET padded == [p \in 1..Len(batch) |->
                     cat(tokens[p],
                         zeros(max_len - tokens[p].shape[1], tokens[p].shape[2]))]
        locals == [max_len |-> max_len, tokens |-> padded]
    IN
    IF ~tensorAccepts([p \in 1..Len(batch) |-> images[p].shape])
    THEN Raised(op, w, arg, "ValueError", 96, locals)
    ELSE IF ~tensorAccepts([p \in 1..Len(batch) |-> padded[p].shape])
    THEN Raised(op, w, arg, "ValueError", 97, locals)
    ELSE Returned(op, w, arg,
                  [images |-> [kind |-> "tensor", shape |-> <<Len(batch)>>,
                               device |-> device],
                   tokens |-> [kind |-> "tensor", shape |-> <<Len(batch)>>,
                               rows |-> [p \in 1..Len(batch) |-> padded[p].rows[1][1]],
                               device |-> device],
                   len |-> seq_len],
                  locals)

\* whether a callable with the given numbers of required and optional
\* positional parameters accepts a call with `given` positional arguments
Accepts(required, optional, given) ==
    required <= given /\ given <= required + optional

\* get_dataloader(data_path, image_dir, formulas_path, vocab_path, device,
\* shuffle).  Compose.__init__(self, transforms) has one parameter and is
\* given three arguments; TrainTestDataset.__init__ has five parameters, none
\* optional, and is given four
GetDataloaderOutcome(w, device, shuffle) ==
    LET op == "get_dataloader"
        arg == [device |-> device, shuffle |-> shuffle]
    IN  IF ~Accepts(1, 0, 3)
        THEN Raised(op, w, arg, "TypeError", 113, NoLocals)
        ELSE IF ~Accepts(5, 0, 4)
        THEN Raised(op, w, arg, "TypeError", 119, NoLocals)
        ELSE Returned(op, w, arg,
                      [dataset_transform |-> None, batch_size |-> BatchSize,
                       shuffle |-> shuffle, collate_fn |-> "collate",
                       collate_device |-> device],
                      NoLocals)

\* ------------------------------------------------------------------ inputs

Workers == 1..NumWorkers

Devices == {"cpu", "cuda"}

\* what the caller may pass as transform: nothing, or the pipeline of
\* get_dataloader built the way Compose accepts it
Transforms == {None, "pipeline"}

Draws == -ZMax..ZMax

\* draws that give a negative ratio, a zero one, one below 1, 1, 1.5 and the
\* largest
SomeDraws == {-2 * ZDen - 1, -2 * ZDen, -1, 0, ZDen, ZMax}

SeqsUpTo(S, n) == UNION {[1..m -> S] : m \in 0..n}

\* every vocabulary file of at most MaxVocabLines lines of at most MaxLineLen
\* glyphs: repeated lines, blank lines and stray whitespace included
VocabFiles == SeqsUpTo(SeqsUpTo(Glyphs, MaxLineLen), MaxVocabLines)

SomeVocabFiles ==
    { << <<"a">>, <<"b">>, UNKNOWN >>,
      << <<"a">>, UNKNOWN >>,
      << <<"a">>, <<"b">> >> }

SomeFormulasFiles ==
    { << <<"a", " ", "b">>, <<>>, <<"x", " ", "a", " ", " ", "b">> >>,
      << <<"a">> >> }

SomeDataFiles ==
    { << <<"img1.png", 0>>, <<"img2.png", 1>>, <<"img1.png", 2>> >>,
      << <<"img1.png", -1>>, <<"missing.png", 0>>, <<"img1.png", 3>> >> }

SomeImageFiles == ("img1.png" :> <<4, 2>>) @@ ("img2.png" :> <<1, 3>>)

\* the sample indices a caller may pass: the valid ones and some on each side
Indices == -4..3

SomeFormulas ==
    { <<>>, << <<"a">> >>, << <<"x">> >>, << <<"a">>, <<"x">> >> }

\* the one-hot matrices of n rows and V columns
OneHots(n, V) ==
    { Matrix(n, V, [r \in 1..n |-> [c \in 1..V |-> IF c = hot[r] THEN 1 ELSE 0]]) :
        hot \in [1..n -> 1..V] }

ImageShapes == { <<1, 1, 1>>, <<1, 2, 2>> }

\* the samples of a dataset whose vocabulary has V entries, the sequence
\* length of each being the row count of its token matrix
Samples(V) ==
    { <<Tensor(shape), t, t.shape[1]>> :
        shape \in ImageShapes, t \in UNION {OneHots(n, V) : n \in 0..MaxSeqLen} }

Batches == UNION {SeqsUpTo(Samples(V), MaxBatch) : V \in 1..2}

SomeBatches == SeqsUpTo(Samples(1), 1)

ImageSizes == (1..MaxSide) \X (1..MaxSide)

\* ----------------------------------------------------------------- actions

\* TrainTestDataset.__init__(data_path, image_dir, formulas_path, vocab_path,
\* transform) on well-formed files
Construct(tr) ==
    /\ ~constructed
    /\ constructed' = TRUE
    /\ formulas' = LoadFormulas(formulas_file)
    /\ data' = LoadData(data_file)
    /\ vocab' = LoadVocab(vocab_file)
    /\ image_dir' = "images"
    /\ transform' = tr
    /\ ret' = Returned("__init__", 0, tr, None, NoLocals)
    /\ UNCHANGED inputs

LenCall(w) ==
    /\ constructed
    /\ ret' = LenOutcome(w)
    /\ UNCHANGED <<inputs, constructed, fields>>

\* (GetItemLeaky is a __getitem__ that registers a token in self.vocab, as
\* an encode built on dict.setdefault would)
GetItemLeaky(w, index, k) ==
    /\ constructed
    /\ ret' = GetItemOutcome(w, index, k)
    /\ vocab' = IF ilocInRange(data, index)
                THEN (<<"x">> :> Cardinality(DOMAIN vocab)) @@ vocab
                ELSE vocab
    /\ UNCHANGED <<inputs, constructed, formulas, data, image_dir, transform>>

GetItem(w, index, k) ==
    /\ constructed
    /\ ret' = GetItemOutcome(w, index, k)
    /\ UNCHANGED <<inputs, constructed, fields>>

EncodeTokens(w, formula) ==
    /\ constructed
    /\ ret' = EncodeTokensOutcome(w, formula)
    /\ UNCHANGED <<inputs, constructed, fields>>

DownsampleImage(w, image, k) ==
    /\ constructed
    /\ ret' = DownsampleOutcome(w, image, k)
    /\ UNCHANGED <<inputs, constructed, fields>>

Collate(w, batch, device) ==
    /\ ret' = CollateOutcome(w, batch, device)
    /\ UNCHANGED <<inputs, constructed, fields>>

GetDataloader(w, device, shuffle) ==
    /\ ret' = GetDataloaderOutcome(w, device, shuffle)
    /\ UNCHANGED <<inputs, constructed, fields>>

\* ---------------------------------------------------------- specifications

Unconstructed ==
    /\ constructed = FALSE
    /\ formulas = None
    /\ data = None
    /\ vocab = None
    /\ image_dir = None
    /\ transform = None
    /\ ret = NoCall

\* the dataset in use: construction, then any calls by any workers
Init ==
    /\ vocab_file \in SomeVocabFiles
    /\ formulas_file \in SomeFormulasFiles
    /\ data_file \in SomeDataFiles
    /\ image_files = SomeImageFiles
    /\ Unconstructed

Next ==
    \/ \E tr \in Transforms : Construct(tr)
    \/ \E w \in Workers : LenCall(w)
    \/ \E w \in Workers, index \in Indices, k \in SomeDraws : GetItem(w, index, k)
    \/ \E w \in Workers, formula \in SomeFormulas : EncodeTokens(w, formula)
    \/ \E w \in Workers, batch \in SomeBatches, device \in Devices :
          Collate(w, batch, device)
    \/ \E w \in Workers, device \in Devices, shuffle \in BOOLEAN :
          GetDataloader(w, device, shuffle)

Spec == Init /\ [][Next]_vars

\* the vocabulary load, over every bounded vocabulary file
InitVocab ==
    /\ vocab_file \in VocabFiles
    /\ formulas_file = << <<"a">> >>
    /\ data_file = << <<"img1.png", 0>> >>
    /\ image_files = SomeImageFiles
    /\ Unconstructed

NextVocab == \E tr \in Transforms : Construct(tr)

SpecVocab == InitVocab /\ [][NextVocab]_vars

\* collate, over every bounded batch
InitFixed ==
    /\ vocab_file = << <<"a">>, UNKNOWN >>
    /\ formulas_file = << <<"a">> >>
    /\ data_file = << <<"img1.png", 0>> >>
    /\ image_files = SomeImageFiles
    /\ Unconstructed

NextCollate ==
    \E w \in Workers, batch \in Batches, device \in Devices :
        Collate(w, batch, device)

SpecCollate == InitFixed /\ [][NextCollate]_vars

\* _downsample_image, over every bounded image size and draw
NextDownsample ==
    \/ \E tr \in Transforms : Construct(tr)
    \/ \E w \in Workers, size \in ImageSizes, k \in Draws :
          DownsampleImage(w, PILImage(size), k)

SpecDownsample == InitFixed /\ [][NextDownsample]_vars

\* ------------------------------------------------------------------ claims

\* how far a call of __getitem__ got: the locals assigned when it ended
ItemAssigned(r) ==
    r.op = "__getitem__" /\ (r.status = "returned" \/ r.line # 49)

FormulaAssigned(r) ==
    ItemAssigned(r) /\ (r.status = "returned" \/ r.line # 50)

SeqLenAssigned(r) ==
    FormulaAssigned(r) /\ (r.status = "returned" \/ r.line # 52)

EncodeReached(r) ==
    SeqLenAssigned(r) /\ (r.status = "returned" \/ r.line \notin {84, 85})

ValidIndex(r) == r.arg.index \in 0..(Len(data) - 1)

\* the tokens of the formula file's line at 0-based position id
TokensOfLine(id) == split(formulas_file[id + 1])

\* the column of a token: its vocabulary index, or that of UNKNOWN
ColumnOf(token) ==
    IF token \in DOMAIN vocab THEN vocab[token] ELSE vocab[UNKNOWN]

\* C1: for every valid sample index whose formula ID is a row of the Formula
\* Table, the sequence length __getitem__ computes for the sample (the third
\* component of what it returns) is the number of tokens of that formula.
C1_SeqLenIsTokenCount ==
    (/\ SeqLenAssigned(ret)
     /\ ValidIndex(ret)
     /\ ret.locals.item[2] \in 0..(Len(formulas) - 1))
    => ret.locals.seq_len = Len(TokensOfLine(ret.locals.item[2]))

\* C2: with UNKNOWN in the vocabulary, _encode_tokens on a formula holding a
\* token that is no key of the vocabulary returns, and the row of every such
\* token is hot at the index of UNKNOWN.
C2_UnknownTokenEncodes ==
    (/\ ret.op = "_encode_tokens"
     /\ UNKNOWN \in DOMAIN vocab
     /\ \E j \in 1..Len(ret.arg) : ret.arg[j] \notin DOMAIN vocab)
    => /\ ret.status = "returned"
       /\ \A j \in 1..Len(ret.arg) :
             ret.arg[j] \notin DOMAIN vocab
             => ret.value.rows[j][vocab[UNKNOWN] + 1] = 1

\* C3: for every valid sample index whose formula has the tokens t_0..t_(n-1),
\* __getitem__ returns a token matrix of n rows and len(vocab) columns whose
\* row j is 1 at the column of t_j (that of UNKNOWN when t_j is no key) and 0
\* elsewhere.
C3_OneHotMatrix ==
    (/\ EncodeReached(ret)
     /\ ValidIndex(ret)
     /\ ret.locals.item[2] \in 0..(Len(formulas) - 1)
     /\ UNKNOWN \in DOMAIN vocab)
    => LET t == TokensOfLine(ret.locals.item[2])
           V == Cardinality(DOMAIN vocab)
       IN  /\ ret.status = "returned"
           /\ ret.value[2].shape = <<Len(t), V>>
           /\ \A j \in 1..Len(t) : \A c \in 1..V :
                 ret.value[2].rows[j][c] = IF c - 1 = ColumnOf(t[j]) THEN 1 ELSE 0

\* C4: for every non-empty batch whose samples' sequence lengths are the row
\* counts of their token matrices, collate returns; the k-th assembled token
\* matrix has max_len rows, the first len_k of them the k-th sample's and the
\* others all zero, and the k-th entry of 'len' is the k-th sample's length.
C4_CollatePadsInOrder ==
    (ret.op = "collate" /\ ret.arg.batch # <<>>)
    => LET batch == ret.arg.batch
           max_len == Max([p \in 1..Len(batch) |-> batch[p][3]])
       IN  /\ ret.status = "returned"
           /\ ret.value.len = [p \in 1..Len(batch) |-> batch[p][3]]
           /\ ret.value.tokens.shape = <<Len(batch), max_len, batch[1][2].shape[2]>>
           /\ \A p \in 1..Len(batch) :
                 /\ Len(ret.value.tokens.rows[p]) = max_len
                 /\ \A r \in 1..max_len :
                       ret.value.tokens.rows[p][r] =
                          IF r <= batch[p][3]
                          THEN batch[p][2].rows[r]
                          ELSE [c \in 1..batch[p][2].shape[2] |-> 0]

\* C5: for every Index Table row whose formula ID is no row position of the
\* Formula Table, __getitem__ raises at the lookup of the formula: no row of
\* the Formula Table is resolved for it, by wrapping around or otherwise.
C5_OutOfRangeFormulaIdIsFatal ==
    (/\ ItemAssigned(ret)
     /\ ret.locals.item[2] \notin 0..(Len(formulas) - 1))
    => /\ ret.status = "raised"
       /\ ret.exc = "IndexError"
       /\ ret.line = 50

\* whether key is line without its leading and trailing whitespace
IsStripped(line, key) ==
    \E i \in 1..(Len(line) + 1), j \in 0..Len(line) :
        /\ key = SubSeq(line, i, j)
        /\ \A p \in 1..Len(line) : (p < i \/ p > j) => line[p] \in Whitespace
        /\ key # <<>> => (key[1] \notin Whitespace /\ key[Len(key)] \notin Whitespace)

\* whether key is line without its trailing whitespace
IsRightStripped(line, key) ==
    \E j \in 0..Len(line) :
        /\ key = SubSeq(line, 1, j)
        /\ \A p \in 1..Len(line) : p > j => line[p] \in Whitespace
        /\ key # <<>> => key[Len(key)] \notin Whitespace

\* C6, as stated: after construction the vocabulary maps every line of the
\* vocabulary file, its trailing whitespace removed, to the line's 0-based
\* number.
C6_EveryLineMapsToItsNumber ==
    constructed
    => \A p \in 1..Len(vocab_file) :
          \E key \in DOMAIN vocab :
              IsRightStripped(vocab_file[p], key) /\ vocab[key] = p - 1

\* C6, amended: after construction the vocabulary has, for every line of the
\* vocabulary file, the line without its leading and trailing whitespace as a
\* key, mapped to the largest 0-based number of a line that strips to the
\* same key; it has no other key.
C6_StrippedLineMapsToLastNumber ==
    constructed
    => /\ \A p \in 1..Len(vocab_file) :
             \E key \in DOMAIN vocab :
                 /\ IsStripped(vocab_file[p], key)
                 /\ vocab[key] \in 0..(Len(vocab_file) - 1)
                 /\ IsStripped(vocab_file[vocab[key] + 1], key)
                 /\ \A q \in 1..Len(vocab_file) :
                       IsStripped(vocab_file[q], key) => q - 1 <= vocab[key]
       /\ \A key \in DOMAIN vocab :
             \E p \in 1..Len(vocab_file) : IsStripped(vocab_file[p], key)

\* a vocabulary file of two lines that strip to the same key, the first with
\* whitespace before it, has been loaded
C6_Witness ==
    /\ constructed
    /\ Len(vocab_file) = 2
    /\ vocab_file[1] = <<" ", "a">>
    /\ vocab_file[2] = <<"a">>
    /\ vocab = (<<"a">> :> 1)

\* C7: every call of get_dataloader returns a loader whose dataset has the
\* transform pipeline as its transform, with batch size 8, the caller's
\* shuffle flag and collate bound to the caller's device.
C7_LoaderIsBuilt ==
    ret.op = "get_dataloader"
    => /\ ret.status = "returned"
       /\ ret.value.dataset_transform = "pipeline"
       /\ ret.value.batch_size = BatchSize
       /\ ret.value.shuffle = ret.arg.shuffle
       /\ ret.value.collate_fn = "collate"
       /\ ret.value.collate_device = ret.arg.device

\* how the call of __getitem__ recorded in ret ends when made again
GetItemAgain == GetItemOutcome(ret.worker, ret.arg.index, ret.arg.k)

\* C8: after construction no call, returning or raising, by any worker,
\* changes the vocabulary, the Formula Table, the Index Table, image_dir or
\* transform; so every __len__ returns the number of lines of the index file
\* and every __getitem__ ends as a call with the same index and draw would
\* end after it.
C8_TablesNeverChange ==
    [][constructed
       => /\ fields' = fields
          /\ ret'.op = "__len__" => ret'.value = Len(data_file)
          /\ ret'.op = "__getitem__"
             => ret' = GetItemAgain']_vars

\* the last worker's __getitem__ has raised and the tables are as loaded
C8_Witness ==
    /\ constructed
    /\ ret.op = "__getitem__"
    /\ ret.worker = NumWorkers
    /\ ret.status = "raised"
    /\ ret.line = 70
    /\ vocab = LoadVocab(vocab_file)
    /\ formulas = LoadFormulas(formulas_file)
    /\ data = LoadData(data_file)

\* C9: every ratio _downsample_image draws is in [1, 1.5], and the call
\* returns an image whose width and height are at most the original's and at
\* least the original's divided by 1.5, rounded down.
C9_RatioInInterval ==
    ret.op = "_downsample_image"
    => /\ RatioDen <= RatioNum(ret.arg.k)
       /\ 2 * RatioNum(ret.arg.k) <= 3 * RatioDen
       /\ ret.status = "returned"
       /\ \A d \in 1..2 :
             /\ ret.value.size[d] <= ret.arg.image.size[d]
             /\ ret.value.size[d] >= (2 * ret.arg.image.size[d]) \div 3

\* C10: after construction every index stored in the vocabulary is in
\* [0, len(vocab)), the column count of the one-hot matrix.
C10_VocabIndicesInRange ==
    constructed
    => \A key \in DOMAIN vocab :
          0 <= vocab[key] /\ vocab[key] < Cardinality(DOMAIN vocab)

====
